---- MODULE Spec2Model ----
(***************************************************************************)
(* printcolumn: ColumnPrinter.print_column_row (column_printer.py) and the *)
(* module-level wrappers of core.py.                                       *)
(*                                                                         *)
(* Python values are tagged records, so that None, ints, bools, strings    *)
(* and lists can meet in one field as they do in the code.  A string is a  *)
(* sequence of one-character strings.  A list of widths or of booleans     *)
(* holds tagged values (the code can pad it with None); a list of colours  *)
(* or of texts holds strings.                                              *)
(*                                                                         *)
(* State: printer is a ColumnPrinter instance the caller holds;            *)
(* _column_printer is the module global of core.py; caller_kw holds the     *)
(* objects the caller passes as keyword arguments (a list among them is    *)
(* the same list object at every call); last records the latest call of   *)
(* the instance now in use and what it did (NoCall for a new instance);    *)
(* shared is the set of list fields of printer that hold the very list     *)
(* object the caller also passes in caller_kw (__init__ stores the list it *)
(* is given, it does not copy it).                                         *)
(***************************************************************************)
EXTENDS Integers, Sequences, FiniteSets, TLC

VARIABLES printer, _column_printer, caller_kw, last, shared

vars == <<printer, _column_printer, caller_kw, last, shared>>

----------------------------------------------------------------------------
(* Python values *)

None == [t |-> "None"]
PyInt(n) == [t |-> "int", i |-> n]
PyBool(x) == [t |-> "bool", b |-> x]
PyStr(s) == [t |-> "str", s |-> s]
PyList(l) == [t |-> "list", l |-> l]

\* a keyword argument of ColumnPrinter(...) that the caller leaves out
Absent == [t |-> "absent"]

\* bool(v)
Truthy(v) ==
    CASE v.t = "None" -> FALSE
      [] v.t = "int" -> v.i # 0
      [] v.t = "bool" -> v.b
      [] v.t = "str" -> Len(v.s) > 0
      [] v.t = "list" -> Len(v.l) > 0

\* a or b
PyOr(a, b) == IF Truthy(a) THEN a ELSE b

\* a if a is not None else b
IfNotNone(a, b) == IF a.t # "None" THEN a ELSE b

\* isinstance(v, int): bool is a subclass of int
IsInstanceInt(v) == v.t \in {"int", "bool"}

\* s.replace(' ', '')
StripSpaces(s) == SelectSeq(s, LAMBDA c : c # " ")

\* [c.replace(' ', '') for c in l]
StripAll(l) == [k \in 1..Len(l) |-> StripSpaces(l[k])]

\* [v] * n (the empty list when n <= 0)
Repeat(v, n) == IF n <= 0 THEN <<>> ELSE [k \in 1..n |-> v]

Max2(a, b) == IF a >= b THEN a ELSE b

Fields ==
    {"col_widths", "col_text_colors", "col_back_colors", "col_bold", "col_italic",
     "col_divider_char", "row_divider_char", "width", "bold", "italic",
     "text_color", "back_color"}

ListFields == {"col_widths", "col_text_colors", "col_back_colors", "col_bold", "col_italic"}

----------------------------------------------------------------------------
(* Class constants, column_printer.py lines 40-43 *)

DEFAULT_COL_WIDTH == 20
DEFAULT_COL_DIV == <<" ">>
DEFAULT_ROW_DIV == <<"-">>
CARRIAGE_RETURN == <<"\n">>

----------------------------------------------------------------------------
(* textwrap.fill(text, width).split('\n') with the defaults the code uses  *)
(* (break_long_words, drop_whitespace), for texts of letters and spaces.   *)

IsSpace(chunk) == \A k \in 1..Len(chunk) : chunk[k] = " "

RECURSIVE SplitChunks(_, _, _)
\* the maximal runs of spaces and of non-spaces of text, in order
SplitChunks(text, cur, acc) ==
    IF text = <<>>
    THEN IF cur = <<>> THEN acc ELSE Append(acc, cur)
    ELSE IF cur = <<>> \/ ((Head(text) = " ") = (cur[1] = " "))
         THEN SplitChunks(Tail(text), Append(cur, Head(text)), acc)
         ELSE SplitChunks(Tail(text), <<Head(text)>>, Append(acc, cur))

RECURSIVE FillLine(_, _, _, _)
\* the inner while loop: chunks move to the line while they fit
FillLine(chunks, cur_line, cur_len, width) ==
    IF chunks # <<>> /\ cur_len + Len(Head(chunks)) <= width
    THEN FillLine(Tail(chunks), Append(cur_line, Head(chunks)),
                  cur_len + Len(Head(chunks)), width)
    ELSE [chunks |-> chunks, cur_line |-> cur_line, cur_len |-> cur_len]

\* the long-word step if the wrapper were built with break_long_words = False:
\* the word goes whole onto an empty line
HandleLongWordUnbroken(st, width) ==
    IF st.cur_line = <<>>
    THEN [chunks |-> Tail(st.chunks), cur_line |-> <<Head(st.chunks)>>,
          cur_len |-> Len(Head(st.chunks))]
    ELSE st

\* TextWrapper._handle_long_word with break_long_words = True
HandleLongWord(st, width) ==
    LET space_left == IF width < 1 THEN 1 ELSE width - st.cur_len
        chunk == Head(st.chunks)
        end == IF space_left < Len(chunk) THEN space_left ELSE Len(chunk)
    IN  [chunks |-> <<SubSeq(chunk, end + 1, Len(chunk))>> \o Tail(st.chunks),
         cur_line |-> Append(st.cur_line, SubSeq(chunk, 1, end)),
         cur_len |-> st.cur_len + end]

RECURSIVE Join(_)
Join(parts) == IF parts = <<>> THEN <<>> ELSE Head(parts) \o Join(Tail(parts))

RECURSIVE WrapChunks(_, _, _)
\* TextWrapper._wrap_chunks for width >= 1
WrapChunks(chunks, lines, width) ==
    IF chunks = <<>> THEN lines
    ELSE LET c1 == IF IsSpace(Head(chunks)) /\ lines # <<>> THEN Tail(chunks) ELSE chunks
             f == FillLine(c1, <<>>, 0, width)
             g == IF f.chunks # <<>> /\ Len(Head(f.chunks)) > width
                  THEN HandleLongWord(f, width) ELSE f
             cur_line == IF g.cur_line # <<>> /\ IsSpace(g.cur_line[Len(g.cur_line)])
                         THEN SubSeq(g.cur_line, 1, Len(g.cur_line) - 1)
                         ELSE g.cur_line
         IN  WrapChunks(g.chunks,
                        IF cur_line # <<>> THEN Append(lines, Join(cur_line)) ELSE lines,
                        width)

\* textwrap.fill(str(text or ' '), width=w).split('\n'): no line gives ['']
WrappedLines(text, w) ==
    LET t == IF text = <<>> THEN <<" ">> ELSE text
        lines == WrapChunks(SplitChunks(t, <<>>, <<>>), <<>>, w)
    IN  IF lines = <<>> THEN << <<>> >> ELSE lines

\* line.ljust(w)
Ljust(line, w) == line \o Repeat(" ", w - Len(line))

----------------------------------------------------------------------------
(* ColumnPrinter.__init__, column_printer.py lines 58-100 *)

\* the default of each keyword parameter of __init__
InitDefault ==
    [col_widths |-> PyList(<<>>), col_text_colors |-> PyList(<<>>),
     col_back_colors |-> PyList(<<>>), col_bold |-> PyList(<<>>),
     col_italic |-> PyList(<<>>),
     col_divider_char |-> PyStr(DEFAULT_COL_DIV),
     row_divider_char |-> PyStr(DEFAULT_ROW_DIV),
     width |-> PyInt(DEFAULT_COL_WIDTH),
     bold |-> PyBool(FALSE), italic |-> PyBool(FALSE),
     text_color |-> PyStr(<<>>), back_color |-> PyStr(<<>>)]

\* ColumnPrinter(**opts): every field stores what was passed, or the default
ColumnPrinter(opts) ==
    [f \in Fields |-> IF opts[f].t = "absent" THEN InitDefault[f] ELSE opts[f]]

\* no keyword argument given
NoOpts == [f \in Fields |-> Absent]

\* every keyword argument of print_column_row left at its default, None
NoKw == [f \in Fields |-> None]

----------------------------------------------------------------------------
(* ColumnPrinter.print_column_row, column_printer.py lines 141-190 *)

\* x[:] raises TypeError unless x is a list or a string
Sliceable(v) == v.t \in {"list", "str"}

\* lines 142-146: kw or self.f[:], for the five per-column fields
ListFallbackRaises(self, kw) ==
    \E f \in ListFields : ~Truthy(kw[f]) /\ ~Sliceable(self[f])

\* lines 152-153: (kw or self.f) must have .replace
ColorRaises(self, kw) ==
    \/ PyOr(kw.text_color, self.text_color).t # "str"
    \/ PyOr(kw.back_color, self.back_color).t # "str"

\* lines 142-153: the value of every field after the fallback to the instance
Resolve(self, kw) ==
    [col_widths |-> PyOr(kw.col_widths, self.col_widths),
     col_text_colors |-> PyOr(kw.col_text_colors, self.col_text_colors),
     col_back_colors |-> PyOr(kw.col_back_colors, self.col_back_colors),
     col_bold |-> PyOr(kw.col_bold, self.col_bold),
     col_italic |-> PyOr(kw.col_italic, self.col_italic),
     col_divider_char |-> PyOr(kw.col_divider_char, self.col_divider_char),
     row_divider_char |-> PyOr(kw.row_divider_char, self.row_divider_char),
     width |-> PyOr(kw.width, self.width),
     bold |-> IfNotNone(kw.bold, self.bold),
     italic |-> IfNotNone(kw.italic, self.italic),
     text_color |-> LET c == PyOr(kw.text_color, self.text_color)
                    IN  IF c.t = "str" THEN PyStr(StripSpaces(c.s)) ELSE c,
     back_color |-> LET c == PyOr(kw.back_color, self.back_color)
                    IN  IF c.t = "str" THEN PyStr(StripSpaces(c.s)) ELSE c]

\* lines 156, 159, 160: [v] if isinstance(v, int / bool) else v
ListOfInt(v) == IF IsInstanceInt(v) THEN <<v>> ELSE v.l
ListOfBool(v) == IF v.t = "bool" THEN <<v>> ELSE v.l

\* lines 157-158: every colour stripped of spaces, a single string as one colour
ListOfColor(v) == IF v.t = "list" THEN StripAll(v.l) ELSE <<StripSpaces(v.s)>>

\* line 161: list(args) if args else ['']
ArgList(args) == IF Len(args) > 0 THEN args ELSE << <<>> >>

\* the padding of lines 165-166 put in front of the given widths
PadWidthsLeft(col_widths, args, width) ==
    IF Len(col_widths) < Len(args)
    THEN Repeat(width, Len(args) - Len(col_widths)) \o col_widths
    ELSE col_widths

\* lines 165-166: col_widths += [width] * (len(args) - len(col_widths))
PadWidths(col_widths, args, width) ==
    IF Len(col_widths) < Len(args)
    THEN col_widths \o Repeat(width, Len(args) - Len(col_widths))
    ELSE col_widths

\* lines 167-168: args += [''] * (len(col_widths) - len(args))
PadArgs(args, col_widths) ==
    IF Len(args) < Len(col_widths)
    THEN args \o Repeat(<<>>, Len(col_widths) - Len(args))
    ELSE args

\* lines 171-174: l += [v] * (num_cols - len(l))
PadStyle(l, v, num_cols) == l \o Repeat(v, num_cols - Len(l))

\* line 228: textwrap raises TypeError for width None, ValueError for width <= 0
WrapRaises(col_widths) ==
    IF \E k \in 1..Len(col_widths) :
          /\ \A j \in 1..(k - 1) : col_widths[j].t = "int" /\ col_widths[j].i > 0
          /\ col_widths[k].t # "int"
    THEN "TypeError"
    ELSE IF \E k \in 1..Len(col_widths) :
                col_widths[k].t = "int" /\ col_widths[k].i <= 0
         THEN "ValueError"
         ELSE "none"

\* lines 226-230: zip(args, col_widths), each text wrapped to its width
WrapColumns(args, col_widths) ==
    [k \in 1..Len(args) |-> WrappedLines(args[k], col_widths[k].i)]

\* lines 206-208 with one divider counted per column instead of per gap
GetRowLengthPerColumn(col_widths, col_divider_char) ==
    LET S[k \in 0..Len(col_widths)] ==
            IF k = 0 THEN 0 ELSE S[k - 1] + col_widths[k].i
    IN  S[Len(col_widths)] + Len(col_divider_char) * Len(col_widths)

\* lines 206-208
GetRowLength(col_widths, col_divider_char) ==
    LET S[k \in 0..Len(col_widths)] ==
            IF k = 0 THEN 0 ELSE S[k - 1] + col_widths[k].i
    IN  S[Len(col_widths)] + Len(col_divider_char) * (Len(col_widths) - 1)

----------------------------------------------------------------------------
(* Output.  One event per call of print_formatted or print; a parameter    *)
(* the code does not pass is Unset.                                        *)

Unset == [t |-> "unset"]

\* lines 267-274: print_formatted(padded_line, color, back_color, bold, italic, end='')
CellEvent(padded_line, color, back_color, bold, italic) ==
    [ev |-> "print_formatted", text |-> PyStr(padded_line), color |-> PyStr(color),
     back_color |-> PyStr(back_color), bold |-> bold, italic |-> italic,
     end |-> PyStr(<<>>)]

\* lines 276-280: print_formatted(col_divider_char, back_color, end='')
DividerEvent(col_divider_char, back_color) ==
    [ev |-> "print_formatted", text |-> col_divider_char, color |-> Unset,
     back_color |-> PyStr(back_color), bold |-> Unset, italic |-> Unset,
     end |-> PyStr(<<>>)]

\* print(line): lines 281, 302, 306
PrintEvent(line) ==
    [ev |-> "print", text |-> PyStr(line), color |-> Unset, back_color |-> Unset,
     bold |-> Unset, italic |-> Unset, end |-> PyStr(<<"\n">>)]

\* line 261: max(len(col) for col in columns)
RowCount(columns) ==
    LET M[k \in 0..Len(columns)] ==
            IF k = 0 THEN 0 ELSE Max2(M[k - 1], Len(columns[k]))
    IN  M[Len(columns)]

RECURSIVE PrintCols(_, _, _, _, _, _, _, _, _)
\* lines 264-280: the inner loop, from column col_index (1-based) on
PrintCols(columns, col_widths, col_text_colors, col_back_colors, col_bold, col_italic, col_divider_char, row_index, col_index) ==
    IF col_index > Len(columns) THEN <<>>
    ELSE LET line == IF row_index <= Len(columns[col_index])
                     THEN columns[col_index][row_index] ELSE <<>>
             padded_line == Ljust(line, col_widths[col_index].i)
         IN  <<CellEvent(padded_line, col_text_colors[col_index],
                         col_back_colors[col_index], col_bold[col_index],
                         col_italic[col_index])>>
             \o (IF col_index < Len(columns)
                 THEN <<DividerEvent(col_divider_char, col_back_colors[col_index])>>
                 ELSE <<>>)
             \o PrintCols(columns, col_widths, col_text_colors, col_back_colors,
                          col_bold, col_italic, col_divider_char, row_index,
                          col_index + 1)

RECURSIVE PrintRows(_, _, _, _, _, _, _, _, _)
\* lines 263-281: the outer loop, from row row_index (1-based) on
PrintRows(columns, col_widths, col_text_colors, col_back_colors, col_bold, col_italic, col_divider_char, row_index, row_count) ==
    IF row_index > row_count THEN <<>>
    ELSE PrintCols(columns, col_widths, col_text_colors, col_back_colors, col_bold,
                   col_italic, col_divider_char, row_index, 1)
         \o <<PrintEvent(<<>>)>>
         \o PrintRows(columns, col_widths, col_text_colors, col_back_colors,
                      col_bold, col_italic, col_divider_char, row_index + 1,
                      row_count)

\* lines 261-281
PrintColumns(columns, col_widths, col_text_colors, col_back_colors, col_bold, col_italic, col_divider_char) ==
    PrintRows(columns, col_widths, col_text_colors, col_back_colors, col_bold,
              col_italic, col_divider_char, 1, RowCount(columns))

\* math.ceil(a / b) for a >= 0, b > 0
CeilDiv(a, b) == (a + b - 1) \div b

\* line 305: (row_divider_char * math.ceil(row_length / len(row_divider_char)))[:row_length]
DividerLine(row_divider_char, row_length) ==
    LET n == Len(row_divider_char)
        rep == Join(Repeat(row_divider_char, CeilDiv(row_length, n)))
    IN  SubSeq(rep, 1, row_length)

\* lines 301-306: the exception the divider step raises, or "none"
RowDividerRaises(row_divider_char) ==
    IF row_divider_char.t # "str" THEN "TypeError"
    ELSE IF row_divider_char.s = CARRIAGE_RETURN THEN "none"
    ELSE IF Len(row_divider_char.s) = 0 THEN "ZeroDivisionError"
    ELSE "none"

\* lines 301-306
PrintRowDivider(row_divider_char, row_length) ==
    IF row_divider_char.s = CARRIAGE_RETURN
    THEN <<PrintEvent(<<>>)>>
    ELSE <<PrintEvent(DividerLine(row_divider_char.s, row_length))>>

----------------------------------------------------------------------------
(* The whole of print_column_row as a function of the instance and the     *)
(* arguments: the exception raised ("none" when it returns), the fields    *)
(* after the fallback, the per-column vectors handed to the renderer, the  *)
(* output events, and the keyword arguments as the caller sees them after  *)
(* the call (a list the caller passed is extended in place by +=).         *)

\* lines 165-172 on the caller's own list objects
KwAfter(kw, col_widths, col_bold, col_italic) ==
    [kw EXCEPT
       !.col_widths = IF Truthy(kw.col_widths) /\ kw.col_widths.t = "list"
                      THEN PyList(col_widths) ELSE @,
       !.col_bold = IF Truthy(kw.col_bold) /\ kw.col_bold.t = "list"
                    THEN PyList(col_bold) ELSE @,
       !.col_italic = IF Truthy(kw.col_italic) /\ kw.col_italic.t = "list"
                      THEN PyList(col_italic) ELSE @]

\* the result of a call that raised before line 156
Raised(exc, r, kw) ==
    [exc |-> exc, resolved |-> r, texts |-> <<>>, widths |-> <<>>,
     textColors |-> <<>>, backColors |-> <<>>, bold |-> <<>>, italic |-> <<>>,
     columns |-> <<>>, out |-> <<>>, kw_after |-> kw]

PrintColumnRow(self, args, kw) ==
    LET r == Resolve(self, kw)
    IN  IF ListFallbackRaises(self, kw) THEN Raised("TypeError", NoKw, kw)
        ELSE IF ColorRaises(self, kw) THEN Raised("AttributeError", NoKw, kw)
        ELSE
        LET args1 == ArgList(args)
            widths0 == ListOfInt(r.col_widths)
            col_widths == PadWidths(widths0, args1, r.width)
            texts == PadArgs(args1, widths0)
            num_cols == Len(texts)
            col_bold == PadStyle(ListOfBool(r.col_bold), r.bold, num_cols)
            col_italic == PadStyle(ListOfBool(r.col_italic), r.italic, num_cols)
            col_text_colors ==
                PadStyle(ListOfColor(r.col_text_colors), r.text_color.s, num_cols)
            col_back_colors ==
                PadStyle(ListOfColor(r.col_back_colors), r.back_color.s, num_cols)
            wrapExc == WrapRaises(col_widths)
            columns == WrapColumns(texts, col_widths)
            printed == PrintColumns(columns, col_widths, col_text_colors,
                                    col_back_colors, col_bold, col_italic,
                                    r.col_divider_char)
            row_length == GetRowLength(col_widths, r.col_divider_char.s)
            divExc == RowDividerRaises(r.row_divider_char)
            base == [exc |-> "none", resolved |-> r, texts |-> texts,
                     widths |-> col_widths, textColors |-> col_text_colors,
                     backColors |-> col_back_colors, bold |-> col_bold,
                     italic |-> col_italic, columns |-> <<>>, out |-> <<>>,
                     kw_after |-> KwAfter(kw, col_widths, col_bold, col_italic)]
        IN  IF wrapExc # "none" THEN [base EXCEPT !.exc = wrapExc]
            ELSE IF r.col_divider_char.t # "str"
            THEN [base EXCEPT !.exc = "TypeError", !.columns = columns,
                              !.out = printed]
            ELSE IF divExc # "none"
            THEN [base EXCEPT !.exc = divExc, !.columns = columns, !.out = printed]
            ELSE [base EXCEPT !.columns = columns,
                              !.out = printed \o PrintRowDivider(r.row_divider_char,
                                                                 row_length)]

----------------------------------------------------------------------------
(* Input domains *)

MaxCols == 2
MaxTextLen == 4
MaxWidth == 3

\* the texts a caller passes: two words, and one word longer than the widths
Texts == <<  <<"a", " ", "b">>, <<"a", "b", "c", "d">>  >>

\* *args: up to MaxCols texts, neighbouring columns holding different texts
ArgsDomain ==
    {[k \in 1..n |-> Texts[((first + k) % Len(Texts)) + 1]] :
        n \in 0..MaxCols, first \in 1..Len(Texts)}

\* the values a caller passes for each keyword argument of print_column_row
KwValues ==
    [col_widths |-> {PyInt(0), PyInt(2), PyList(<<>>), PyList(<<PyInt(3)>>),
                     PyList(<<PyInt(1), PyInt(2)>>), PyList(<<PyInt(0)>>),
                     PyList(<<PyInt(2), PyInt(-1)>>)},
     col_text_colors |-> {PyStr(<<>>), PyStr(<<"r", " ", "d">>), PyList(<<>>),
                          PyList(<< <<"r">>, <<"g", " ", "b">> >>)},
     col_back_colors |-> {PyStr(<<>>), PyStr(<<"w">>), PyList(<<>>),
                          PyList(<< <<"k">>, <<"y", " ">> >>)},
     col_bold |-> {PyBool(FALSE), PyBool(TRUE), PyList(<<>>), PyList(<<PyBool(TRUE)>>),
                   PyList(<<PyBool(FALSE), PyBool(TRUE)>>)},
     col_italic |-> {PyBool(FALSE), PyBool(TRUE), PyList(<<>>),
                     PyList(<<PyBool(TRUE)>>),
                     PyList(<<PyBool(TRUE), PyBool(FALSE)>>)},
     col_divider_char |-> {PyStr(<<>>), PyStr(<<"|">>), PyStr(<<" ", "|">>)},
     row_divider_char |-> {PyStr(<<>>), PyStr(<<"\n">>), PyStr(<<"=">>),
                           PyStr(<<"x", "y">>)},
     width |-> {PyInt(0), PyInt(3), PyInt(-1)},
     bold |-> {PyBool(FALSE), PyBool(TRUE)},
     italic |-> {PyBool(FALSE), PyBool(TRUE)},
     text_color |-> {PyStr(<<>>), PyStr(<<"c", " ", "n">>)},
     back_color |-> {PyStr(<<>>), PyStr(<<"m">>)}]

\* the fields a call sets together: each alone, and the pairs that meet in the code
KwGroups ==
    {{f} : f \in Fields} \cup
    {{"col_widths", "width"}, {"col_widths", "col_divider_char"},
     {"col_widths", "row_divider_char"}, {"col_divider_char", "row_divider_char"},
     {"col_bold", "bold"}, {"col_italic", "italic"},
     {"col_text_colors", "text_color"}, {"col_back_colors", "back_color"}}

\* keyword arguments: the fields of one group given, the others left None
KwDomain ==
    {NoKw} \cup
    UNION {{[f \in Fields |-> IF f \in g THEN c[f] ELSE None] :
              c \in {d \in [g -> UNION {KwValues[f] : f \in g}] :
                       \A f \in g : d[f] \in KwValues[f]}} : g \in KwGroups}


\* the values a caller passes to ColumnPrinter(...) or initialize_column_printer(...)
CtorValues ==
    [col_widths |-> {PyList(<<PyInt(2)>>), PyList(<<PyInt(0)>>)},
     col_text_colors |-> {PyList(<< <<"r", " ", "d">> >>)},
     col_back_colors |-> {PyList(<< <<"w">> >>)},
     col_bold |-> {PyList(<<PyBool(TRUE)>>)},
     col_italic |-> {PyList(<<PyBool(TRUE)>>)},
     col_divider_char |-> {PyStr(<<>>), PyStr(<<"|">>)},
     row_divider_char |-> {PyStr(<<>>), PyStr(<<"\n">>), PyStr(<<"=">>)},
     width |-> {PyInt(0), PyInt(2)},
     bold |-> {PyBool(TRUE)},
     italic |-> {PyBool(TRUE)},
     text_color |-> {PyStr(<<"c", " ", "n">>)},
     back_color |-> {PyStr(<<"m">>)}]

\* one field given the value v, the others left at missing
OneGiven(g, v, missing) == [f \in Fields |-> IF f = g THEN v ELSE missing]

\* every field given: its non-degenerate value
AllGiven ==
    [col_widths |-> PyList(<<PyInt(2)>>),
     col_text_colors |-> PyList(<< <<"r", " ", "d">> >>),
     col_back_colors |-> PyList(<< <<"w">> >>),
     col_bold |-> PyList(<<PyBool(TRUE)>>),
     col_italic |-> PyList(<<PyBool(TRUE)>>),
     col_divider_char |-> PyStr(<<"|">>),
     row_divider_char |-> PyStr(<<"=">>),
     width |-> PyInt(2), bold |-> PyBool(TRUE), italic |-> PyBool(TRUE),
     text_color |-> PyStr(<<"c", " ", "n">>), back_color |-> PyStr(<<"m">>)]

\* ColumnPrinter(...): nothing given, one field given, or every field given
CtorOpts ==
    {NoOpts, AllGiven} \cup
    UNION {{OneGiven(g, v, Absent) : v \in CtorValues[g]} : g \in Fields}

\* initialize_column_printer(...): a parameter the caller leaves out is None;
\* nothing given, one field given, every field given, or every field but one
InitOpts ==
    {NoKw, AllGiven} \cup
    UNION {{OneGiven(g, v, None) : v \in CtorValues[g]} : g \in Fields} \cup
    {[AllGiven EXCEPT ![g] = None] : g \in Fields}

----------------------------------------------------------------------------
(* Actions *)

\* a ColumnPrinter object as the value of a variable that can also be None
PyObj(o) == [t |-> "ColumnPrinter", o |-> o]

NoCall == [op |-> "none"]

\* what a call leaves to be observed
CallRecord(api, self, args, kwargs, res) ==
    [op |-> "print_column_row", api |-> api, self |-> self, args |-> args,
     kw |-> kwargs, exc |-> res.exc, resolved |-> res.resolved,
     texts |-> res.texts, widths |-> res.widths, textColors |-> res.textColors,
     backColors |-> res.backColors, bold |-> res.bold, italic |-> res.italic,
     columns |-> res.columns, out |-> res.out]

Init ==
    /\ printer = ColumnPrinter(NoOpts)
    /\ _column_printer = None
    /\ caller_kw \in KwDomain
    /\ last = NoCall
    /\ shared = {}

\* printer = ColumnPrinter(**opts)
Construct(opts) ==
    /\ printer' = ColumnPrinter(opts)
    /\ last' = NoCall
    /\ shared' = {}
    /\ UNCHANGED <<_column_printer, caller_kw>>

\* printer = ColumnPrinter(f=caller_kw[f]) for a list the caller holds: lines
\* 89-93 store the object itself, so the instance and the caller share it
ConstructShared(f) ==
    /\ caller_kw[f].t = "list"
    /\ printer' = ColumnPrinter(OneGiven(f, caller_kw[f], Absent))
    /\ last' = NoCall
    /\ shared' = {f}
    /\ UNCHANGED <<_column_printer, caller_kw>>

\* the instance after a call: a list it shares with the caller is the caller's
\* list, whatever lines 165-172 appended to it
SharedAfter(self, kw_after) ==
    [f \in Fields |-> IF f \in shared THEN kw_after[f] ELSE self[f]]

\* printer.print_column_row(*args, **caller_kw)
MethodCall(args) ==
    LET res == PrintColumnRow(printer, args, caller_kw)
    IN  /\ last' = CallRecord("method", printer, args, caller_kw, res)
        /\ caller_kw' = res.kw_after
        /\ printer' = SharedAfter(printer, res.kw_after)
        /\ UNCHANGED <<_column_printer, shared>>

\* core.initialize_column_printer(**opts), core.py lines 131-146: every
\* parameter, given or None, is passed on to ColumnPrinter
InitializeColumnPrinter(opts) ==
    /\ _column_printer' = PyObj(ColumnPrinter(opts))
    /\ last' = NoCall
    /\ UNCHANGED <<printer, caller_kw, shared>>

\* core._check_printer_obj, core.py lines 43-46
CheckPrinterObj(global) ==
    IF global.t = "None" THEN PyObj(ColumnPrinter(NoOpts)) ELSE global

\* core.print_column_row(*args, **caller_kw), core.py lines 81-96
ModuleCall(args) ==
    LET p == CheckPrinterObj(_column_printer)
        res == PrintColumnRow(p.o, args, caller_kw)
    IN  /\ _column_printer' = p
        /\ last' = CallRecord("module", p.o, args, caller_kw, res)
        /\ caller_kw' = res.kw_after
        /\ printer' = SharedAfter(printer, res.kw_after)
        /\ UNCHANGED shared

Next ==
    \/ \E opts \in CtorOpts : Construct(opts)
    \/ \E f \in ListFields : ConstructShared(f)
    \/ \E args \in ArgsDomain : MethodCall(args)

Spec == Init /\ [][Next]_vars

NextCore ==
    \/ \E opts \in InitOpts : InitializeColumnPrinter(opts)
    \/ \E args \in ArgsDomain : ModuleCall(args)

SpecCore == Init /\ [][NextCore]_vars

----------------------------------------------------------------------------
(* The wrap step on its own: one column, every text of letters and spaces  *)
(* up to MaxTextLen characters, every width from 1 to MaxWidth.            *)

RECURSIVE StringsUpTo(_)
StringsUpTo(n) ==
    IF n = 0 THEN {<<>>}
    ELSE LET shorter == StringsUpTo(n - 1)
         IN  shorter \cup {Append(s, c) : s \in shorter, c \in {"a", "b", " "}}

WrapTexts == StringsUpTo(MaxTextLen)

InitWrap ==
    /\ printer = ColumnPrinter(NoOpts)
    /\ _column_printer = None
    /\ caller_kw \in {[NoKw EXCEPT !.col_widths = PyList(<<PyInt(w)>>)] : w \in 1..MaxWidth}
    /\ last = NoCall
    /\ shared = {}

NextWrap == \E text \in WrapTexts : MethodCall(<<text>>)

SpecWrap == InitWrap /\ [][NextWrap]_vars

----------------------------------------------------------------------------
(* Vocabulary of the properties *)

Called == last.op = "print_column_row"

\* the call got as far as handing its per-column vectors to the renderer (line 176)
Rendered == Called /\ Len(last.texts) > 0

\* the call printed its display rows (lines 179-186)
RowPrinted == Called /\ Len(last.out) > 0

\* the widths that count as explicit: the list after the fallback and line 156
ExplicitWidths == ListOfInt(last.resolved.col_widths)

\* an override the caller has provided: not None, and not an empty string or list
Provided(v) ==
    /\ v.t # "None"
    /\ v.t = "str" => Len(v.s) > 0
    /\ v.t = "list" => Len(v.l) > 0

\* a colour field as it is used: spaces removed
Normal(f, v) ==
    IF f \in {"text_color", "back_color"} /\ v.t = "str" THEN PyStr(StripSpaces(v.s))
    ELSE v

IsWord(text) == Len(text) > 0 /\ \A k \in 1..Len(text) : text[k] # " "

----------------------------------------------------------------------------
(* C1 *)

\* C1: in every call the vectors texts, widths, textColors, backColors, bold and
\* italic handed to the renderer have one length, the larger of the number of
\* texts (one, for a call without texts) and the number of explicit widths.
\* The code never shortens a style list: one longer than the column count
\* stays longer.
C1_EqualLengths ==
    Rendered =>
        LET n == Len(last.texts)
        IN  /\ Len(last.widths) = n
            /\ Len(last.textColors) = n
            /\ Len(last.backColors) = n
            /\ Len(last.bold) = n
            /\ Len(last.italic) = n
            /\ n = Max2(Len(ArgList(last.args)), Len(ExplicitWidths))

----------------------------------------------------------------------------
(* C2 *)

\* the instance of the latest call was stored by initialize_column_printer
\* (the instance _check_printer_obj creates has every default, which no
\* option set of InitOpts reproduces)
AfterInitialize ==
    Called /\ last.api = "module" /\ last.self # ColumnPrinter(NoOpts)

\* C2: after initialize_column_printer(options), a module-level call that
\* overrides nothing returns without raising, and a call that returns uses,
\* for every field it does not override, the value of options, or the
\* hard-coded default where options gave none.
C2_InitializedDefaults ==
    AfterInitialize =>
        /\ last.kw = NoKw => last.exc = "none"
        /\ last.exc = "none" =>
             \A f \in Fields :
                 last.kw[f] = None =>
                     last.resolved[f] =
                         Normal(f, IF last.self[f] # None THEN last.self[f]
                                   ELSE InitDefault[f])

----------------------------------------------------------------------------
(* C3 *)

\* C3: every field resolves to the call-level override when one is provided
\* (not None, not an empty string or list) and to the instance's value
\* otherwise; a provided list replaces the instance's list as a whole.
C3_OverrideElseInstance ==
    Rendered =>
        \A f \in Fields :
            last.resolved[f] =
                Normal(f, IF Provided(last.kw[f]) THEN last.kw[f] ELSE last.self[f])

----------------------------------------------------------------------------
(* C4 *)

\* column k was wrapped, and its text is one word longer than its width
LongWordColumn(k) ==
    /\ k \in 1..Len(last.columns)
    /\ IsWord(last.texts[k])
    /\ Len(last.texts[k]) > last.widths[k].i

----------------------------------------------------------------------------
(* C5 *)

\* C5: a call in which some resolved column width is zero or negative does
\* not raise, and its row and divider are printed.
C5_NonPositiveWidthTolerated ==
    (Rendered /\ \E k \in 1..Len(last.widths) :
                    last.widths[k].t = "int" /\ last.widths[k].i <= 0)
        => last.exc = "none" /\ RowPrinted

----------------------------------------------------------------------------
(* C6 *)

\* C6: when the resolved row divider is the empty string, a call that has
\* printed its row returns normally (no division by zero in the divider step).
C6_EmptyRowDividerGuarded ==
    (RowPrinted /\ last.resolved.row_divider_char = PyStr(<<>>))
        => last.exc = "none"

----------------------------------------------------------------------------
(* C7 *)

RECURSIVE SumWidths(_)
SumWidths(ws) == IF ws = <<>> THEN 0 ELSE Head(ws).i + SumWidths(Tail(ws))

\* rowLength = sum(widths) + len(columnDivider) * (numColumns - 1)
RowLength ==
    SumWidths(last.widths)
        + Len(last.resolved.col_divider_char.s) * (Len(last.texts) - 1)

\* the row was printed and the resolved row divider is a non-empty string other
\* than the newline sentinel
DividerLineCase ==
    /\ RowPrinted
    /\ last.resolved.row_divider_char.t = "str"
    /\ Len(last.resolved.row_divider_char.s) > 0
    /\ last.resolved.row_divider_char.s # CARRIAGE_RETURN

\* C7: the divider line printed after the row is rowLength characters long and
\* its k-th character is rowDivider[k mod len(rowDivider)].
C7_DividerLine ==
    DividerLineCase =>
        LET e == last.out[Len(last.out)]
            rd == last.resolved.row_divider_char.s
        IN  /\ e.ev = "print"
            /\ Len(e.text.s) = RowLength
            /\ \A k \in 1..RowLength : e.text.s[k] = rd[((k - 1) % Len(rd)) + 1]

\* two columns, a two-character row divider, an odd row length
C7_Witness ==
    /\ DividerLineCase
    /\ Len(last.texts) = 2
    /\ Len(last.resolved.row_divider_char.s) = 2
    /\ RowLength % 2 = 1

----------------------------------------------------------------------------
(* C8 *)

\* C8: the given widths are the call's non-empty list, or the instance's list
\* when the call gives none.  Fewer widths than texts: the resolved widths are
\* the given widths in order, then the scalar default width up to the number
\* of texts; fewer texts than widths: the resolved texts are the given texts
\* in order, then empty strings up to the number of widths; otherwise nothing
\* is added.
C8_RightPadding ==
    Rendered =>
        LET given == ExplicitWidths
            nW == Len(given)
            nT == Len(last.args)
        IN  /\ Provided(last.kw.col_widths) /\ last.kw.col_widths.t = "list"
                   => given = last.kw.col_widths.l
            /\ last.kw.col_widths = None /\ last.self.col_widths.t = "list"
                   => given = last.self.col_widths.l
            /\ \A k \in 1..nW : last.widths[k] = given[k]
            /\ \A k \in 1..nT : last.texts[k] = last.args[k]
            /\ \A k \in (nW + 1)..Len(last.widths) :
                   last.widths[k] = last.resolved.width
            /\ \A k \in (nT + 1)..Len(last.texts) : last.texts[k] = <<>>
            /\ nW < nT => Len(last.widths) = nT /\ Len(last.texts) = nT
            /\ nT < nW => Len(last.texts) = nW /\ Len(last.widths) = nW

\* two texts and one given width that differs from the scalar default width
C8_Witness ==
    /\ Rendered
    /\ Len(last.args) = 2
    /\ Len(ExplicitWidths) = 1
    /\ ExplicitWidths[1] # last.resolved.width
    /\ last.widths = <<ExplicitWidths[1], last.resolved.width>>

----------------------------------------------------------------------------
(* C9 *)

\* the padded cell: the line, then spaces up to the column's width
IsPadded(text, line, w) ==
    /\ Len(text) = Max2(Len(line), w)
    /\ \A k \in 1..Len(text) : text[k] = IF k <= Len(line) THEN line[k] ELSE " "

\* rowHeight: no column has more lines, and one has as many
IsRowHeight(h) ==
    /\ \A k \in 1..Len(last.columns) : Len(last.columns[k]) <= h
    /\ \E k \in 1..Len(last.columns) : Len(last.columns[k]) = h

\* C9: the events of a call are, for each display row, for each column in
\* order, the padded cell in the column's style and, unless the column is the
\* last, the column divider on the same column's background; one line break
\* after the last cell of each display row; then the row divider line, once.
C9_OutputOrder ==
    (Called /\ Len(last.columns) > 0) =>
        \E h \in 1..Len(last.out) :
            LET n == Len(last.columns)
                At(r, j) == last.out[(r - 1) * 2 * n + j]
            IN  /\ IsRowHeight(h)
                /\ Len(last.out) = h * 2 * n + 1
                /\ \A r \in 1..h : \A i \in 1..n :
                     LET c == At(r, 2 * i - 1)
                         line == IF r <= Len(last.columns[i])
                                 THEN last.columns[i][r] ELSE <<>>
                     IN  /\ c.ev = "print_formatted"
                         /\ IsPadded(c.text.s, line, last.widths[i].i)
                         /\ c.color = PyStr(last.textColors[i])
                         /\ c.back_color = PyStr(last.backColors[i])
                         /\ c.bold = last.bold[i]
                         /\ c.italic = last.italic[i]
                         /\ c.end = PyStr(<<>>)
                         /\ IF i < n
                            THEN /\ At(r, 2 * i).ev = "print_formatted"
                                 /\ At(r, 2 * i).text = last.resolved.col_divider_char
                                 /\ At(r, 2 * i).back_color = PyStr(last.backColors[i])
                                 /\ At(r, 2 * i).end = PyStr(<<>>)
                            ELSE At(r, 2 * i) = PrintEvent(<<>>)
                /\ last.out[h * 2 * n + 1].ev = "print"

----------------------------------------------------------------------------
(* C10 *)

\* C10: a scalar passed where a list is expected (an int for col_widths, a
\* bool for col_bold or col_italic, a string for a colour list), whatever its
\* value, is the first element of the resolved vector; the rest is padding
\* from the scalar defaults.
C10_ScalarCoercion ==
    Rendered =>
        /\ last.kw.col_widths.t = "int" =>
              /\ last.widths[1] = last.kw.col_widths
              /\ \A k \in 2..Len(last.widths) : last.widths[k] = last.resolved.width
        /\ last.kw.col_bold.t = "bool" =>
              /\ last.bold[1] = last.kw.col_bold
              /\ \A k \in 2..Len(last.bold) : last.bold[k] = last.resolved.bold
        /\ last.kw.col_italic.t = "bool" =>
              /\ last.italic[1] = last.kw.col_italic
              /\ \A k \in 2..Len(last.italic) : last.italic[k] = last.resolved.italic
        /\ last.kw.col_text_colors.t = "str" =>
              /\ last.textColors[1] = StripSpaces(last.kw.col_text_colors.s)
              /\ \A k \in 2..Len(last.textColors) :
                     last.textColors[k] = last.resolved.text_color.s
        /\ last.kw.col_back_colors.t = "str" =>
              /\ last.backColors[1] = StripSpaces(last.kw.col_back_colors.s)
              /\ \A k \in 2..Len(last.backColors) :
                     last.backColors[k] = last.resolved.back_color.s

----------------------------------------------------------------------------
(* C11 *)

\* C11: after a call the caller's keyword arguments, the override lists
\* col_widths, col_bold, col_italic, col_text_colors and col_back_colors among
\* them, have the contents they had when the call was made.
C11_CallerListsUnchanged == Called => caller_kw = last.kw

----------------------------------------------------------------------------
(* C12 *)

\* C12: after a call of the instance's print_column_row, every field of the
\* instance has the value it had when the call was made.
C12_InstanceUnchanged == (Called /\ last.api = "method") => printer = last.self

====
